---- MODULE Spec2Model ----
(***************************************************************************)
(* Job conduction of the research orchestrator: conduct_research spawns    *)
(* one asyncio task per ResearchJob, each task runs _conduct_research,     *)
(* which drives the produce -> compress -> verify pipeline                 *)
(* (research_task, compress_research, verify_research) for the job's       *)
(* tasks, and asyncio.gather collects the jobs' outcomes.                  *)
(*                                                                         *)
(* Two implementations of the source are modelled, selected by `variant`:  *)
(*   "workflow" : research_workflow/.../research_conductor/conduct_research.py *)
(*   "pipeline" : reserch_process_pipeline/.../research_conductor/agent.py *)
(* The three capabilities are external: what they return (or that they     *)
(* raise) is chosen nondeterministically when the call returns.            *)
(***************************************************************************)
EXTENDS Naturals, Sequences, FiniteSets

VARIABLES variant, batch, job, cpc, cres, firstFailed

\* The input and the results of the feedback segregation taken on its own.
VARIABLES research_outputs, segregated, presented

\* The event bus: _running, _handlers, the last of start/stop, how often
\* handle() of each handler was called for the event of the latest publish,
\* and the publish call under way or last ended.
VARIABLES running, handlers, lifecycle, invoked, dispatch

\* A session of events published one after the other on a running bus, to
\* ResearchProgressTracker and ResearchAuditLogger: the events published so
\* far, the publish under way, _audit_log and _session_progress.
VARIABLES published, handling, audit_log, session_progress

executorVars == <<variant, batch, job, cpc, cres, firstFailed>>

segregatorVars == <<research_outputs, segregated, presented>>

busVars == <<running, handlers, lifecycle, invoked, dispatch>>

sessionVars == <<published, handling, audit_log, session_progress>>

\* The research supervisor of one research round after the other: where it
\* is in its loop, whether research_complete has been called, the number of
\* research jobs of the conduct_research call under way or last made, and
\* the conduct_research calls made so far.
VARIABLES phase, completion_signal, research_jobs, rounds

\* The WebSocket manager: its connections by websocket
\* (websocket_to_connection), the sends of its latest operation, that
\* operation, its connections by session (self.connections) and
\* active_sessions.
VARIABLES connections, delivery, operation, session_lists, active_sessions

\* A publish_many call on the bus: the call, and the events it has
\* dispatched so far.
VARIABLES many, dispatched

supervisorVars == <<phase, completion_signal, research_jobs, rounds>>

socketVars ==
    <<connections, delivery, operation, session_lists, active_sessions>>

publishManyVars == <<many, dispatched>>

\* The research orchestrator: the lines the user will type at the feedback
\* prompts of the planning phase, how a direct call of
\* run_research_planning_phase and a call of orchestrate_research ended, the
\* classes of the events the emitter published on the bus, and the number of
\* end_session_tracking calls made.
VARIABLES user_inputs, planning, orchestration, emitted, tracking_ended

orchestratorVars ==
    <<user_inputs, planning, orchestration, emitted, tracking_ended>>

vars == <<executorVars, segregatorVars, busVars, sessionVars, supervisorVars,
          socketVars, publishManyVars, orchestratorVars>>

\* ------------------------------------------------------------------ bounds
MaxJobs == 2

MaxTasks == 2

\* The longest list of pipeline results handed to the segregation.
MaxResults == 3

\* The handler objects that exist, and the most entries the registry of the
\* bus holds at a time (a handler subscribed twice is two entries).
MaxHandlers == 3

MaxSubscriptions == 3

\* The most events published in a session run.
MaxPublished == 3

\* The most research jobs the supervisor puts into one conduct_research
\* call, and the most conduct_research calls of a run.
MaxRequestedJobs == 11

MaxRounds == 3

\* max_concurrent_research_units
max_concurrent_research_units == 10

\* The most events handed to one publish_many call.
MaxEvents == 3

\* The most lines the user types at the feedback prompts of a planning phase.
MaxInputs == 3

\* ------------------------------------------------------------- data model
Variants == {"workflow", "pipeline"}

\* prconfig.research_jobs: wf is isinstance(rj, ResearchJob), n is
\* len(rj.research_tasks); task k of a job stands for its k-th description.
JobInputs == [wf : BOOLEAN, n : 0..MaxTasks]

Batches == UNION {[1..m -> JobInputs] : m \in 0..MaxJobs}

\* What research_task can do: return findings, return an empty
\* research_output, or raise.
ProduceOutcomes == {"text", "empty", "raise"}

\* What verify_research returns: the verdict and the number of entries of
\* research_tasks_missing.
Reviews == [verdict : {"research_complete", "research_incomplete"}, missing : 0..1]

\* A Python value a coroutine returns, or the exception it raises.
\*   kind "none"      : not returned yet
\*   kind "exception" : raised `tag`
\*   kind "tuple"     : (rt, research_output, compressed, review), items = <<t>>
\*   kind "list"      : a list of such tuples
\*   kind "dict"      : the failure dict whose first key is `tag`
\*   kind "object"    : a ResearchOutput model instance
\*   kind "text"      : a rendered template
Value(kind, tag, items) == [kind |-> kind, tag |-> tag, items |-> items]

NoValue == Value("none", "", <<>>)

Exc(name) == Value("exception", name, <<>>)

ListOf(items) == Value("list", "", items)

TupleOf(t) == Value("tuple", "", <<t>>)

DictOf(firstKey) == Value("dict", firstKey, <<>>)

TextOf(name) == Value("text", name, <<>>)

ResearchOutputObject == Value("object", "ResearchOutput", <<>>)

\* A result tuple whose review is not the one verify_research returned to
\* the job: the verdict comes from elsewhere.
ForeignResultTuple(k, raw, review) ==
    [task |-> k, raw |-> raw, compressed |-> k,
     verdict |-> "research_complete", missing |-> 0]

\* (rt, research_output, compressed_research_output, final_research_review)
ResultTuple(k, raw, review) ==
    [task |-> k, raw |-> raw, compressed |-> k,
     verdict |-> review.verdict, missing |-> review.missing]

\* One call of an external capability by a job: which task, which step,
\* whether it has returned and what it returned.
StartCall(calls, k, step) ==
    Append(calls, [task |-> k, step |-> step, returned |-> FALSE, out |-> "pending"])

\* The call made without `await`: the coroutine goes on while it is in flight.
CallNotAwaited(calls, out) == calls

\* `await`: the coroutine goes on only when the call has returned.
AwaitCall(calls, out) ==
    [calls EXCEPT ![Len(calls)] = [@ EXCEPT !.returned = TRUE, !.out = out]]

\* The state of the asyncio task of one job.
\*   pc : "uncreated" | "created" | "produce" | "compress" | "verify" | "done"
\*   research_output : the local variable of that name in _sequential_rloop
\*   loopres : what _single_task_rloop / _sequential_rloop returned
\*   res     : what _conduct_research returned or raised
\*   events  : the task events the pipeline runs of the job have published;
\*             neither implementation of the loops publishes any
NewJob ==
    [pc |-> "uncreated", calls |-> <<>>, research_output |-> NoValue,
     loopres |-> NoValue, res |-> NoValue, events |-> <<>>]

InFlight(j) == job[j].pc \in {"produce", "compress", "verify"}

Created(j) == job[j].pc # "uncreated"

Finished(j) == job[j].pc = "done"

CurrentTask(j) == job[j].calls[Len(job[j].calls)].task

\* ------------------------------------------------- feedback segregation
\* CompletedResearchTask(research_task, completed_research_tasks,
\* compress_research_output) built from a result tuple.
CompletedTask(t) ==
    [task |-> t.task, compressed |-> t.compressed, verdict |-> t.verdict]

\* Feedback(research_task, incomplete_research_tasks=research_tasks_missing).
FeedbackOf(t) == [task |-> t.task, missing |-> t.missing]

\* Feedback.incomplete_research_tasks is declared List[str] while
\* FinalResearchReview.research_tasks_missing is List[Dict[str, str]]: the
\* model's validation rejects every non-empty list of missing items.
FeedbackRejected(t) == t.missing > 0

RECURSIVE SegregateTaskResults(_)
\* _segregate_task_results: returns (feedbacks, completed), or raises the
\* validation error of the first Feedback that cannot be built.
SegregateTaskResults(results) ==
    IF results = <<>>
    THEN [raised |-> FALSE, feedbacks |-> <<>>, completed |-> <<>>]
    ELSE LET t == results[1]
             rest == SegregateTaskResults(Tail(results))
         IN  IF t.verdict # "research_complete"
             THEN IF FeedbackRejected(t) \/ rest.raised
                  THEN [raised |-> TRUE, feedbacks |-> <<>>, completed |-> <<>>]
                  ELSE [raised |-> FALSE,
                        feedbacks |-> <<FeedbackOf(t)>> \o rest.feedbacks,
                        completed |-> <<CompletedTask(t)>> \o rest.completed]
             ELSE IF rest.raised
                  THEN rest
                  ELSE [rest EXCEPT !.completed = <<CompletedTask(t)>> \o @]

\* _format_for_presentation: the template tests `len(feedbacks) > 0`, and
\* `len` is not a name of a jinja2 Environment, so rendering raises
\* UndefinedError whatever the two lists hold.
FormatForPresentation(feedbacks, completed) == Exc("UndefinedError")

IsComplete(t) == t.verdict = "research_complete"

IsIncomplete(t) == t.verdict # "research_complete"

CompletedTasks(ts) == [i \in 1..Len(ts) |-> CompletedTask(ts[i])]

\* The multi-task branch of _conduct_research, from the list the sequential
\* loop returned to the two lists it hands to _format_for_presentation: the
\* records of the complete results are collected first, the incomplete
\* results are segregated, and the records of the segregation are appended
\* with completed.extend.
PresentationArguments(ros) ==
    LET seg == SegregateTaskResults(SelectSeq(ros, IsIncomplete))
        completed == CompletedTasks(SelectSeq(ros, IsComplete))
    IN  IF seg.raised THEN seg
        ELSE [raised |-> FALSE, feedbacks |-> seg.feedbacks,
              completed |-> completed \o seg.completed]

\* _conduct_research of research_workflow, from the point where the loop
\* has returned `loopres` for a job of n tasks.
ConductResearchWorkflow(n, loopres) ==
    IF loopres.kind = "exception" THEN loopres
    ELSE IF n = 1
    THEN \* rt, research_output, compressed, review = <loop result>
         IF loopres.kind # "tuple"
         THEN Exc("ValueError: not enough values to unpack")
         ELSE LET t == loopres.items[1]
              IN  IF t.verdict # "research_complete"
                  THEN LET seg == SegregateTaskResults(<<t>>)
                       IN  IF seg.raised THEN Exc("ValidationError")
                           ELSE FormatForPresentation(seg.feedbacks, seg.completed)
                  ELSE FormatForPresentation(<<>>, <<CompletedTask(t)>>)
    ELSE \* for ro in research_outputs: ro[3].research_verdict
         IF loopres.kind = "dict"
         THEN Exc("AttributeError: str has no research_verdict")
         ELSE LET args == PresentationArguments(loopres.items)
              IN  IF args.raised THEN Exc("ValidationError")
                  ELSE FormatForPresentation(args.feedbacks, args.completed)

\* _conduct_research of reserch_process_pipeline returns what the loop
\* returned.
ConductResearchPipeline(n, loopres) == loopres

ConductResearchJob(v, n, loopres) ==
    IF v = "workflow" THEN ConductResearchWorkflow(n, loopres)
    ELSE ConductResearchPipeline(n, loopres)

\* A loop that goes on to compress_research whatever research_task returned.
NoEmptinessTest(v, n) == FALSE

\* _single_task_rloop tests the findings for emptiness in research_workflow
\* only; _sequential_rloop tests them in both implementations.
ChecksEmptyOutput(v, n) == ~(v = "pipeline" /\ n = 1)

\* The failure dict a loop returns on empty findings.
EmptyOutputFailure(n) ==
    IF n = 1 THEN DictOf("Error") ELSE DictOf("research_verdict")

\* What _single_task_rloop returns after Verify.
SingleTaskResult(v, t) == IF v = "workflow" THEN TupleOf(t) ELSE ListOf(<<t>>)

\* research_output.append(tuple) in _sequential_rloop: research_output is
\* whatever the name is bound to at that point.
PyAppend(target, t) ==
    IF target.kind = "list" THEN ListOf(Append(target.items, t))
    ELSE Exc("AttributeError: no append")

\* ------------------------------------------------------------ scheduling
\* The calls of reserch_process_pipeline are synchronous: between the calls
\* of one job nothing else of the event loop runs.
SyncBusy(j) == variant = "pipeline" /\ \E i \in DOMAIN job : i # j /\ InFlight(i)

\* The event loop runs ready callbacks first in, first out: the first step
\* of a task runs after the first steps of the tasks created before it.
ReadyToStart(j) ==
    /\ job[j].pc = "created"
    /\ cpc # "init"
    /\ \A i \in DOMAIN job : i < j => job[i].pc # "created"
    /\ ~SyncBusy(j)

\* A gather that cancels the children still running when one of them fails.
SiblingsCancelled(jobs) ==
    [j \in DOMAIN jobs |->
        IF jobs[j].pc \in {"produce", "compress", "verify"}
        THEN [jobs[j] EXCEPT !.pc = "cancelled"] ELSE jobs[j]]

\* asyncio.gather(*tasks) on the exception of a child: the exception is
\* handed to the awaiting caller and the other children are left as they are.
SiblingsAfterGatherError(jobs) == jobs

\* A caller's outcome: kind "none" | "exception" | "text" | "outcomes".
CallerValue(kind, tag, outcomes) == [kind |-> kind, tag |-> tag, outcomes |-> outcomes]

\* The asyncio task of job j ends: the loop returned (or raised) `loopres`
\* and _conduct_research turns it into the job's outcome.
Finish(j, calls, loopres) ==
    LET res == ConductResearchJob(variant, batch[j].n, loopres)
    IN  /\ job' = [job EXCEPT ![j] = [@ EXCEPT !.pc = "done", !.calls = calls,
                                                !.loopres = loopres, !.res = res]]
        /\ firstFailed' = IF firstFailed = 0 /\ res.kind = "exception"
                          THEN j ELSE firstFailed

\* ------------------------------------------------- components at rest
\* No batch has been submitted to conduct_research.
ExecutorIdle ==
    /\ variant = "workflow"
    /\ batch = <<>>
    /\ job = <<>>
    /\ cpc = "init"
    /\ cres = CallerValue("none", "", <<>>)
    /\ firstFailed = 0

\* The result of a function that has not been called.
NotCalled ==
    [called |-> FALSE,
     out |-> [raised |-> FALSE, feedbacks |-> <<>>, completed |-> <<>>]]

Called(out) == [called |-> TRUE, out |-> out]

\* The segregation is not exercised on its own.
SegregatorIdle ==
    /\ research_outputs = <<>>
    /\ segregated = NotCalled
    /\ presented = NotCalled

\* The concrete event classes published in the model, and the base class
\* DomainEvent, under which the handlers of every event are registered.
EventTypes == {"ResearchSessionStarted", "ResearchTaskStarted"}

WildcardType == "DomainEvent"

RegistryKeys == EventTypes \cup {WildcardType}

HandlerIds == 1..MaxHandlers

\* EventPriority
LOW == 1

NORMAL == 2

HIGH == 3

CRITICAL == 4

\* handler.event_type of the handler objects: a handler of
\* ResearchSessionStarted, one of ResearchTaskStarted, one of every event
\* (DomainEvent), and so on in turn.
HandlerType(h) ==
    <<"ResearchSessionStarted", "ResearchTaskStarted", "DomainEvent">>[((h - 1) % 3) + 1]

\* handler.priority.value of the handler objects.
HandlerPriority(h) == <<NORMAL, HIGH, HIGH, LOW, CRITICAL>>[((h - 1) % 5) + 1]

\* A publish call: status "idle" (none yet), "raised" (RuntimeError),
\* "dispatching" (awaiting gather) or "returned"; resolved is
\* sorted_handlers and outcome[i] is "running", "ok" or "failed" for the
\* i-th of them.
NoDispatch == [status |-> "idle", event |-> "", resolved |-> <<>>, outcome |-> <<>>]

NoneInvoked == [h \in HandlerIds |-> 0]

\* InMemoryEventBus.__init__ / SimpleEventBus.__init__: no handler, not
\* running.
BusIdle ==
    /\ running = FALSE
    /\ handlers = [t \in RegistryKeys |-> <<>>]
    /\ lifecycle = "none"
    /\ invoked = NoneInvoked
    /\ dispatch = NoDispatch

\* A publish of the session: the event and the handlers that have not
\* handled it yet, in the order in which they begin.
NoEvent == [type |-> "none", session |-> "none", task |-> "none"]

NotHandling == [event |-> NoEvent, pending |-> <<>>]

\* metadata.session_id and the task_id (aggregate_id) of the task events.
Sessions == {"s1", "s2"}

TaskIds == {"t1", "t2"}

\* _session_progress.get(session_id): `tracked` is `session_id in
\* self._session_progress`; tasks[t] is "absent" or the "status" of the entry.
Untracked ==
    [tracked |-> FALSE, total_tasks |-> 0, completed_tasks |-> 0,
     failed_tasks |-> 0, tasks |-> [t \in TaskIds |-> "absent"]]

\* No event has been published to the tracker and the audit logger.
SessionIdle ==
    /\ published = <<>>
    /\ handling = NotHandling
    /\ audit_log = <<>>
    /\ session_progress = [s \in Sessions |-> Untracked]

\* research_manager_agent has not been called.
SupervisorIdle ==
    /\ phase = "Planning"
    /\ completion_signal = FALSE
    /\ research_jobs = 0
    /\ rounds = 0

\* The WebSocket sockets a client may open, and the event_type strings the
\* connections subscribe to.
Sockets == {"ws1", "ws2"}

SocketEventTypes == {"research.session.started", "research.task.started"}

\* No entry in `connections` / `websocket_to_connection` for the socket.
NoConnection ==
    [registered |-> FALSE, session_id |-> "none", subscribed_events |-> {},
     open |-> FALSE, send_failed |-> FALSE, stale |-> FALSE]

\* No key in self.connections for the session.
NoList == [present |-> FALSE, items |-> <<>>]

\* ResearchWebSocketManager.__init__
SocketIdle ==
    /\ connections = [w \in Sockets |-> NoConnection]
    /\ delivery = {}
    /\ operation = [name |-> "init", session_id |-> "none", tick |-> 0]
    /\ session_lists = [s \in Sessions |-> NoList]
    /\ active_sessions = {}

\* publish_many has not been called.
NoPublishMany == [status |-> "idle", events |-> <<>>]

PublishManyIdle ==
    /\ many = NoPublishMany
    /\ dispatched = <<>>

\* Neither run_research_planning_phase nor orchestrate_research was called.
OrchestratorIdle ==
    /\ user_inputs = <<>>
    /\ planning = "init"
    /\ orchestration = "init"
    /\ emitted = <<>>
    /\ tracking_ended = 0

\* -------------------------------------------------------------------- init
Init ==
    /\ variant \in Variants
    /\ batch \in Batches
    /\ job = [j \in DOMAIN batch |-> NewJob]
    /\ cpc = "init"
    /\ cres = CallerValue("none", "", <<>>)
    /\ firstFailed = 0
    /\ SegregatorIdle
    /\ BusIdle
    /\ SessionIdle
    /\ SupervisorIdle
    /\ SocketIdle
    /\ PublishManyIdle
    /\ OrchestratorIdle

\* ----------------------------------------------------------------- actions
\* conduct_research up to its first suspension: the loop over
\* prconfig.research_jobs creates one task per element until it meets an
\* element that is no ResearchJob, and then awaits gather. gather of no task
\* is done at once, and the overview is rendered.
ConductResearchCall ==
    /\ cpc = "init"
    /\ LET bad == {i \in DOMAIN batch : ~batch[i].wf}
           stop == IF bad = {} THEN Len(batch) + 1
                   ELSE CHOOSE i \in bad : \A b \in bad : i <= b
       IN  /\ job' = [j \in DOMAIN batch |->
                        IF j < stop THEN [job[j] EXCEPT !.pc = "created"] ELSE job[j]]
           /\ IF bad # {}
              THEN /\ cpc' = "raised"
                   /\ cres' = CallerValue("exception", "ValueError: not a ResearchJob", <<>>)
              ELSE IF Len(batch) = 0
              THEN /\ cpc' = "returned"
                   /\ cres' = IF variant = "workflow"
                              THEN CallerValue("text", "full_research_overview", <<>>)
                              ELSE CallerValue("outcomes", "", <<>>)
              ELSE /\ cpc' = "gathering"
                   /\ cres' = cres
    /\ UNCHANGED <<variant, batch, firstFailed>>
    /\ UNCHANGED <<segregatorVars, busVars, sessionVars, supervisorVars, socketVars, publishManyVars,
                   orchestratorVars>>

\* The first step of the task of job j: _conduct_research picks the loop by
\* len(research_tasks) and the loop calls research_task on its first task.
JobStart(j) ==
    /\ ReadyToStart(j)
    /\ LET n == batch[j].n
           ro == IF n = 1 THEN NoValue ELSE ListOf(<<>>)
       IN  IF n = 0
           THEN Finish(j, <<>>, ListOf(<<>>))
           ELSE /\ job' = [job EXCEPT ![j] = [@ EXCEPT !.pc = "produce",
                                   !.research_output = ro,
                                   !.calls = StartCall(<<>>, 1, "Produce")]]
                /\ firstFailed' = firstFailed
    /\ UNCHANGED <<variant, batch, cpc, cres>>
    /\ UNCHANGED <<segregatorVars, busVars, sessionVars, supervisorVars, socketVars, publishManyVars,
                   orchestratorVars>>

\* research_task returns (or raises) for the current task of job j.
ProduceReturn(j, out) ==
    /\ job[j].pc = "produce"
    /\ ~SyncBusy(j)
    /\ LET n == batch[j].n
           k == CurrentTask(j)
           calls == AwaitCall(job[j].calls, out)
       IN  IF out = "raise"
           THEN Finish(j, calls, Exc("ProduceError"))
           ELSE IF out = "empty" /\ ChecksEmptyOutput(variant, n)
           THEN Finish(j, calls, EmptyOutputFailure(n))
           ELSE /\ job' = [job EXCEPT ![j] = [@ EXCEPT !.pc = "compress",
                                   !.research_output =
                                       IF n = 1 THEN @ ELSE ResearchOutputObject,
                                   !.calls = StartCall(calls, k, "Compress")]]
                /\ firstFailed' = firstFailed
    /\ UNCHANGED <<variant, batch, cpc, cres>>
    /\ UNCHANGED <<segregatorVars, busVars, sessionVars, supervisorVars, socketVars, publishManyVars,
                   orchestratorVars>>

\* compress_research returns for the current task of job j.
CompressReturn(j) ==
    /\ job[j].pc = "compress"
    /\ ~SyncBusy(j)
    /\ job' = [job EXCEPT ![j] = [@ EXCEPT !.pc = "verify",
                   !.calls = StartCall(AwaitCall(@, "compressed"), CurrentTask(j), "Verify")]]
    /\ UNCHANGED <<variant, batch, cpc, cres, firstFailed>>
    /\ UNCHANGED <<segregatorVars, busVars, sessionVars, supervisorVars, socketVars, publishManyVars,
                   orchestratorVars>>

\* verify_research returns `review` for the current task of job j: the
\* single-task loop returns, the sequential loop appends and goes on.
VerifyReturn(j, review) ==
    /\ job[j].pc = "verify"
    /\ ~SyncBusy(j)
    /\ LET n == batch[j].n
           k == CurrentTask(j)
           calls == AwaitCall(job[j].calls, review.verdict)
           t == ResultTuple(k, job[j].calls[Len(calls) - 2].out, review)
           appended == PyAppend(job[j].research_output, t)
       IN  IF n = 1
           THEN Finish(j, calls, SingleTaskResult(variant, t))
           ELSE IF appended.kind = "exception" \/ k = n
           THEN Finish(j, calls, appended)
           ELSE /\ job' = [job EXCEPT ![j] = [@ EXCEPT !.pc = "produce",
                                   !.research_output = appended,
                                   !.calls = StartCall(calls, k + 1, "Produce")]]
                /\ firstFailed' = firstFailed
    /\ UNCHANGED <<variant, batch, cpc, cres>>
    /\ UNCHANGED <<segregatorVars, busVars, sessionVars, supervisorVars, socketVars, publishManyVars,
                   orchestratorVars>>

\* The caller resumes from `await asyncio.gather(*tasks)`: with the first
\* exception a job raised, or with all the outcomes in submission order.
GatherResume ==
    /\ cpc = "gathering"
    /\ \A j \in DOMAIN job : job[j].pc # "created" /\ ~SyncBusy(0)
    /\ IF firstFailed # 0
       THEN /\ cpc' = "raised"
            /\ cres' = CallerValue("exception", job[firstFailed].res.tag, <<>>)
            /\ job' = SiblingsAfterGatherError(job)
       ELSE /\ \A j \in DOMAIN job : Finished(j)
            /\ cpc' = "returned"
            /\ cres' = IF variant = "workflow"
                       THEN CallerValue("text", "full_research_overview", <<>>)
                       ELSE CallerValue("outcomes", "", [j \in DOMAIN job |-> job[j].res])
            /\ job' = job
    /\ UNCHANGED <<variant, batch, firstFailed>>
    /\ UNCHANGED <<segregatorVars, busVars, sessionVars, supervisorVars, socketVars, publishManyVars,
                   orchestratorVars>>

Next ==
    \/ ConductResearchCall
    \/ \E j \in DOMAIN job : JobStart(j)
    \/ \E j \in DOMAIN job : \E out \in ProduceOutcomes : ProduceReturn(j, out)
    \/ \E j \in DOMAIN job : CompressReturn(j)
    \/ \E j \in DOMAIN job : \E review \in Reviews : VerifyReturn(j, review)
    \/ GatherResume

Spec == Init /\ [][Next]_vars

\* ------------------------------------- the feedback segregation on its own
\* The lists of pipeline results a job can hold: result k is the result of
\* the k-th task of the job, with any verdict and with or without missing
\* items.
ResultLists ==
    UNION {{[k \in 1..m |-> ResultTuple(k, "text", r[k])] : r \in [1..m -> Reviews]}
              : m \in 0..MaxResults}

SegregatorInit ==
    /\ ExecutorIdle
    /\ BusIdle
    /\ SessionIdle
    /\ SupervisorIdle
    /\ SocketIdle
    /\ PublishManyIdle
    /\ OrchestratorIdle
    /\ research_outputs \in ResultLists
    /\ segregated = NotCalled
    /\ presented = NotCalled

\* _segregate_task_results(research_outputs)
SegregateCall ==
    /\ ~segregated.called
    /\ segregated' = Called(SegregateTaskResults(research_outputs))
    /\ UNCHANGED <<research_outputs, presented, executorVars, busVars, sessionVars, supervisorVars, socketVars, publishManyVars,
                   orchestratorVars>>

\* The multi-task branch of _conduct_research on the list the sequential
\* loop returned, up to the call of _format_for_presentation.
ConductMultiTask ==
    /\ ~presented.called
    /\ Len(research_outputs) # 1
    /\ presented' = Called(PresentationArguments(research_outputs))
    /\ UNCHANGED <<research_outputs, segregated, executorVars, busVars, sessionVars, supervisorVars, socketVars, publishManyVars,
                   orchestratorVars>>

SegregatorNext ==
    \/ SegregateCall
    \/ ConductMultiTask

SegregatorSpec == SegregatorInit /\ [][SegregatorNext]_vars

\* ------------------------------------------------------------ the event bus
\* How often x occurs in the sequence s.
Occurrences(s, x) == Cardinality({i \in DOMAIN s : s[i] = x})

\* list.remove(x): the first occurrence goes; ValueError if there is none.
RemoveFirst(s, x) ==
    IF \E i \in DOMAIN s : s[i] = x
    THEN LET i == CHOOSE k \in DOMAIN s : s[k] = x /\ \A m \in 1..(k - 1) : s[m] # x
         IN  SubSeq(s, 1, i - 1) \o SubSeq(s, i + 1, Len(s))
    ELSE s

\* Only the handlers registered for the very type of the event.
SpecificHandlersOnly(registry, e) == registry[e]

\* all_handlers = specific_handlers + base_handlers
ApplicableHandlers(registry, e) == registry[e] \o registry[WildcardType]

\* The handlers left in the order of all_handlers.
RegistrationOrder(hs) == hs

RECURSIVE SortedHandlers(_)
\* sorted(all_handlers, key=lambda h: h.priority.value, reverse=True): a
\* stable sort, highest priority first.
SortedHandlers(hs) ==
    IF hs = <<>> THEN <<>>
    ELSE LET h == hs[Len(hs)]
             front == SortedHandlers(SubSeq(hs, 1, Len(hs) - 1))
             k == Cardinality({i \in DOMAIN front :
                                  HandlerPriority(front[i]) >= HandlerPriority(h)})
         IN  SubSeq(front, 1, k) \o <<h>> \o SubSeq(front, k + 1, Len(front))

\* A publish that goes on whatever the flag says.
NeverRejects(flag) == FALSE

\* `if not self._running: raise RuntimeError(...)`
NotRunning(flag) == ~flag

\* A gather that hands the failure of a handler to the publisher.
FailureRaised(d, i, out) ==
    [d EXCEPT !.outcome[i] = out,
              !.status = IF out = "failed" THEN "raised" ELSE @]

\* gather(*tasks, return_exceptions=True): the exception of a handler is
\* kept as the result of that handler.
HandlerEnded(d, i, out) == [d EXCEPT !.outcome[i] = out]

\* A publish that reads the registry again whenever the registry changes.
DeliveryFromRegistry(d, registry) ==
    IF d.status # "dispatching" THEN d
    ELSE LET sorted == SortedHandlers(ApplicableHandlers(registry, d.event))
         IN  [d EXCEPT !.resolved = sorted,
                       !.outcome = [i \in DOMAIN sorted |->
                                       IF i \in DOMAIN d.outcome
                                       THEN d.outcome[i] ELSE "running"]]

\* What a change of the registry does to the publish under way:
\* `specific_handlers + base_handlers` and sorted() are new lists, and
\* handle() of every handler in them has been called before publish first
\* suspends, so the publish keeps the handlers it started with.
DeliveryInFlight(d, registry) == d

\* The number of entries of the registry.
Subscriptions ==
    Cardinality(UNION {{<<t, i>> : i \in DOMAIN handlers[t]} : t \in RegistryKeys})

BusInit ==
    /\ ExecutorIdle
    /\ SegregatorIdle
    /\ BusIdle
    /\ SessionIdle
    /\ SupervisorIdle
    /\ SocketIdle
    /\ PublishManyIdle
    /\ OrchestratorIdle

\* start()
Start ==
    /\ running' = TRUE
    /\ lifecycle' = "start"
    /\ UNCHANGED <<handlers, invoked, dispatch, executorVars, segregatorVars, sessionVars, supervisorVars, socketVars, publishManyVars,
                   orchestratorVars>>

\* stop()
Stop ==
    /\ running' = FALSE
    /\ lifecycle' = "stop"
    /\ UNCHANGED <<handlers, invoked, dispatch, executorVars, segregatorVars, sessionVars, supervisorVars, socketVars, publishManyVars,
                   orchestratorVars>>

\* subscribe(handler): appended to the list of its event type, whether or
\* not it is in the list already.
Subscribe(h) ==
    /\ Subscriptions < MaxSubscriptions
    /\ handlers' = [handlers EXCEPT ![HandlerType(h)] = Append(@, h)]
    /\ dispatch' = DeliveryInFlight(dispatch, handlers')
    /\ UNCHANGED <<running, lifecycle, invoked, executorVars, segregatorVars, sessionVars, supervisorVars, socketVars, publishManyVars,
                   orchestratorVars>>

\* unsubscribe(handler)
Unsubscribe(h) ==
    /\ handlers' = [handlers EXCEPT ![HandlerType(h)] = RemoveFirst(@, h)]
    /\ dispatch' = DeliveryInFlight(dispatch, handlers')
    /\ UNCHANGED <<running, lifecycle, invoked, executorVars, segregatorVars, sessionVars, supervisorVars, socketVars, publishManyVars,
                   orchestratorVars>>

\* publish(event) up to its first suspension: it raises if the bus is not
\* running, returns at once if no handler applies, and else calls handle()
\* of every sorted handler and awaits gather. gather makes a task of each
\* coroutine in list order and the event loop starts the tasks first in,
\* first out: `resolved` is the order in which the handlers begin.
PublishCall(e) ==
    /\ dispatch.status # "dispatching"
    /\ IF NotRunning(running)
       THEN /\ dispatch' = [status |-> "raised", event |-> e,
                            resolved |-> <<>>, outcome |-> <<>>]
            /\ invoked' = NoneInvoked
       ELSE LET sorted == SortedHandlers(ApplicableHandlers(handlers, e))
            IN  /\ dispatch' = [status |-> IF sorted = <<>> THEN "returned"
                                            ELSE "dispatching",
                                 event |-> e, resolved |-> sorted,
                                 outcome |-> [i \in DOMAIN sorted |-> "running"]]
                /\ invoked' = [h \in HandlerIds |-> Occurrences(sorted, h)]
    /\ UNCHANGED <<running, handlers, lifecycle, executorVars, segregatorVars, sessionVars, supervisorVars, socketVars, publishManyVars,
                   orchestratorVars>>

\* The i-th handler of the publish under way returns or raises.
HandlerReturn(i, out) ==
    /\ dispatch.status = "dispatching"
    /\ i \in DOMAIN dispatch.outcome
    /\ dispatch.outcome[i] = "running"
    /\ dispatch' = HandlerEnded(dispatch, i, out)
    /\ UNCHANGED <<running, handlers, lifecycle, invoked, executorVars, segregatorVars, sessionVars, supervisorVars, socketVars, publishManyVars,
                   orchestratorVars>>

\* gather is done: publish returns.
PublishReturn ==
    /\ dispatch.status = "dispatching"
    /\ \A i \in DOMAIN dispatch.outcome : dispatch.outcome[i] # "running"
    /\ dispatch' = [dispatch EXCEPT !.status = "returned"]
    /\ UNCHANGED <<running, handlers, lifecycle, invoked, executorVars, segregatorVars, sessionVars, supervisorVars, socketVars, publishManyVars,
                   orchestratorVars>>

BusNext ==
    \/ Start
    \/ Stop
    \/ \E h \in HandlerIds : Subscribe(h)
    \/ \E h \in HandlerIds : Unsubscribe(h)
    \/ \E e \in EventTypes : PublishCall(e)
    \/ \E i \in 1..MaxSubscriptions : \E out \in {"ok", "failed"} : HandlerReturn(i, out)
    \/ PublishReturn

BusSpec == BusInit /\ [][BusNext]_vars

\* ------------------------------- tracker and audit logger under a publisher
\* The events of the run: ResearchSessionStarted of a session (task "none")
\* and the three task events of a task of a session.
TaskEventTypes == {"ResearchTaskStarted", "ResearchTaskCompleted", "ResearchTaskFailed"}

PublishedEvents ==
    [type : {"ResearchSessionStarted"}, session : Sessions, task : {"none"}]
        \cup [type : TaskEventTypes, session : Sessions, task : TaskIds]

\* ResearchProgressTracker._handle_session_started
HandleSessionStarted(p) ==
    [tracked |-> TRUE, total_tasks |-> 0, completed_tasks |-> 0,
     failed_tasks |-> 0, tasks |-> [t \in TaskIds |-> "absent"]]

\* A tracker that records the task and does not count it.
TaskStartedNotCounted(p, t) ==
    IF p.tracked THEN [p EXCEPT !.tasks[t] = "running"] ELSE p

\* ResearchProgressTracker._handle_task_started
HandleTaskStarted(p, t) ==
    IF p.tracked
    THEN [p EXCEPT !.tasks[t] = "running", !.total_tasks = @ + 1]
    ELSE p

\* ResearchProgressTracker._handle_task_completed
HandleTaskCompleted(p, t) ==
    IF p.tracked
    THEN [p EXCEPT !.tasks[t] = IF @ # "absent" THEN "completed" ELSE @,
                   !.completed_tasks = @ + 1]
    ELSE p

\* ResearchProgressTracker._handle_task_failed
HandleTaskFailed(p, t) ==
    IF p.tracked
    THEN [p EXCEPT !.tasks[t] = IF @ # "absent" THEN "failed" ELSE @,
                   !.failed_tasks = @ + 1]
    ELSE p

\* ResearchProgressTracker.handle
TrackerHandle(progress, ev) ==
    [progress EXCEPT ![ev.session] =
        IF ev.type = "ResearchSessionStarted" THEN HandleSessionStarted(@)
        ELSE IF ev.type = "ResearchTaskStarted" THEN HandleTaskStarted(@, ev.task)
        ELSE IF ev.type = "ResearchTaskCompleted" THEN HandleTaskCompleted(@, ev.task)
        ELSE HandleTaskFailed(@, ev.task)]

\* A publish that returns without waiting for its handlers.
HandlersNotAwaited(pending) == TRUE

\* `await asyncio.gather(*tasks, return_exceptions=True)` is done when every
\* handler has ended.
GatherDone(pending) == pending = <<>>

\* The bus is running, with ResearchProgressTracker (HIGH) and
\* ResearchAuditLogger (LOW) subscribed under DomainEvent.
SessionInit ==
    /\ ExecutorIdle
    /\ SegregatorIdle
    /\ BusIdle
    /\ SessionIdle
    /\ SupervisorIdle
    /\ SocketIdle
    /\ PublishManyIdle
    /\ OrchestratorIdle

\* The publisher calls publish(ev), the previous publish having returned:
\* the handlers are resolved and sorted, the tracker before the logger.
SessionPublish(ev) ==
    /\ handling.event = NoEvent
    /\ Len(published) < MaxPublished
    /\ published' = Append(published, ev)
    /\ handling' = [event |-> ev, pending |-> <<"tracker", "audit">>]
    /\ UNCHANGED <<audit_log, session_progress, executorVars, segregatorVars, busVars, supervisorVars, socketVars, publishManyVars,
                   orchestratorVars>>

\* The next handler of the publish under way runs; neither handler suspends
\* before it has ended.
HandleNext ==
    /\ handling.event # NoEvent
    /\ handling.pending # <<>>
    /\ IF Head(handling.pending) = "tracker"
       THEN /\ session_progress' = TrackerHandle(session_progress, handling.event)
            /\ audit_log' = audit_log
       ELSE /\ audit_log' = Append(audit_log, handling.event)
            /\ session_progress' = session_progress
    /\ handling' = [handling EXCEPT !.pending = Tail(@)]
    /\ UNCHANGED <<published, executorVars, segregatorVars, busVars, supervisorVars, socketVars, publishManyVars,
                   orchestratorVars>>

\* gather is done and publish returns to the publisher.
SessionPublishReturn ==
    /\ handling.event # NoEvent
    /\ GatherDone(handling.pending)
    /\ handling' = NotHandling
    /\ UNCHANGED <<published, audit_log, session_progress,
                   executorVars, segregatorVars, busVars, supervisorVars, socketVars, publishManyVars,
                   orchestratorVars>>

SessionNext ==
    \/ \E ev \in PublishedEvents : SessionPublish(ev)
    \/ HandleNext
    \/ SessionPublishReturn

SessionSpec == SessionInit /\ [][SessionNext]_vars

\* ------------------------------------------------- the research supervisor
\* research_manager_agent is an Agent with the tools conduct_research and
\* research_complete and the supervisor prompt. What the agent's model does
\* in its turn is its own choice: it calls conduct_research with a list of
\* research jobs, calls research_complete, or ends its turn with its answer.
ModelTurn == phase \in {"Planning", "Evaluating"}

\* The model calls conduct_research(prconfig) with n research jobs: a task
\* is created for every job of prconfig.research_jobs.
SupervisorConductResearch(n) ==
    /\ ModelTurn
    /\ rounds < MaxRounds
    /\ phase' = "AwaitingResults"
    /\ research_jobs' = n
    /\ rounds' = rounds + 1
    /\ UNCHANGED <<completion_signal, executorVars, segregatorVars, busVars,
                   sessionVars, socketVars, publishManyVars,
                   orchestratorVars>>

\* conduct_research returns its overview to the model.
SupervisorResearchReturn ==
    /\ phase = "AwaitingResults"
    /\ phase' = "Evaluating"
    /\ UNCHANGED <<completion_signal, research_jobs, rounds, executorVars,
                   segregatorVars, busVars, sessionVars, socketVars,
                   publishManyVars,
                   orchestratorVars>>

\* The model calls research_complete(): the tool returns its sentence to the
\* model and changes nothing else.
ResearchComplete ==
    /\ ModelTurn
    /\ ~completion_signal
    /\ completion_signal' = TRUE
    /\ phase' = "Evaluating"
    /\ UNCHANGED <<research_jobs, rounds, executorVars, segregatorVars,
                   busVars, sessionVars, socketVars, publishManyVars,
                   orchestratorVars>>

\* The model ends its turn without a tool call: the agent returns.
EndTurn ==
    /\ ModelTurn
    /\ phase' = "Done"
    /\ UNCHANGED <<completion_signal, research_jobs, rounds, executorVars,
                   segregatorVars, busVars, sessionVars, socketVars,
                   publishManyVars,
                   orchestratorVars>>

SupervisorInit ==
    /\ ExecutorIdle
    /\ SegregatorIdle
    /\ BusIdle
    /\ SessionIdle
    /\ SupervisorIdle
    /\ SocketIdle
    /\ PublishManyIdle
    /\ OrchestratorIdle

SupervisorNext ==
    \/ \E n \in 0..MaxRequestedJobs : SupervisorConductResearch(n)
    \/ SupervisorResearchReturn
    \/ ResearchComplete
    \/ EndTurn

SupervisorSpec == SupervisorInit /\ [][SupervisorNext]_vars

\* --------------------------------------------------- the WebSocket manager
\* The events handed to the WebSocket handlers: event.event_type and
\* event.metadata.session_id.
SocketEvents == [event_type : SocketEventTypes, session_id : Sessions]

\* A send to every connection there is, whatever its session.
EverySession(conns, s) == {w \in Sockets : conns[w].registered}

\* self.connections.get(session_id, [])
SessionConnections(conns, s) ==
    {w \in Sockets : conns[w].registered /\ conns[w].session_id = s}

\* The connections of the session whose subscribed_events hold the type of
\* the event.
InterestedConnections(conns, ev) ==
    {w \in SessionConnections(conns, ev.session_id) :
        ev.event_type \in conns[w].subscribed_events}

\* send_to_connection for every target: update_activity() first, then
\* websocket.send_text; a send that raises is logged and nothing else.
SendToConnection(conns, targets) ==
    [w \in Sockets |->
        IF w \in targets
        THEN [conns[w] EXCEPT !.stale = FALSE, !.send_failed = ~conns[w].open]
        ELSE conns[w]]

\* The sends of one operation: the message type, the event_type of the event
\* the message was made from ("none" for a message made from no event), and
\* whether the socket took the message.
Sends(conns, targets, type, event_type) ==
    {[socket |-> w, type |-> type, event_type |-> event_type,
      received |-> conns[w].open] : w \in targets}

Operation(name, s) ==
    [name |-> name, session_id |-> s, tick |-> 1 - operation.tick]

Registry(lists, active) == [lists |-> lists, active |-> active]

\* connect: the connection is appended to the list of its session, made
\* first if the session has none, and the session is added to
\* active_sessions.
RegisterConnection(reg, w, s) ==
    Registry([reg.lists EXCEPT ![s] =
                 [present |-> TRUE, items |-> Append(@.items, w)]],
             reg.active \cup {s})

\* A disconnect that leaves the emptied list of the session in place.
KeepsEmptiedSession(reg, w, s) ==
    IF ~reg.lists[s].present THEN reg
    ELSE Registry([reg.lists EXCEPT ![s].items =
                      SelectSeq(@, LAMBDA c : c # w)],
                  reg.active)

\* disconnect, for the connection popped from websocket_to_connection: the
\* connections of the websocket leave the list of the session, and a list
\* left empty is deleted and the session discarded from active_sessions.
UnregisterConnection(reg, w, s) ==
    IF ~reg.lists[s].present THEN reg
    ELSE LET left == SelectSeq(reg.lists[s].items, LAMBDA c : c # w)
         IN  IF left = <<>>
             THEN Registry([reg.lists EXCEPT ![s] = NoList], reg.active \ {s})
             ELSE Registry([reg.lists EXCEPT ![s].items = left], reg.active)

RECURSIVE UnregisterEach(_, _, _)
\* disconnect called for one websocket after the other.
UnregisterEach(reg, conns, ws) ==
    IF ws = {} THEN reg
    ELSE LET w == CHOOSE x \in ws : TRUE
         IN  UnregisterEach(UnregisterConnection(reg, w, conns[w].session_id),
                            conns, ws \ {w})

\* connect(websocket, session_id): accept, register with the default
\* subscriptions, confirm.
Connect(w, s) ==
    /\ ~connections[w].registered
    /\ LET conn == [registered |-> TRUE, session_id |-> s,
                    subscribed_events |-> SocketEventTypes, open |-> TRUE,
                    send_failed |-> FALSE, stale |-> FALSE]
           conns == [connections EXCEPT ![w] = conn]
       IN  /\ connections' = SendToConnection(conns, {w})
           /\ delivery' = Sends(conns, {w}, "connection_established", "none")
    /\ operation' = Operation("connect", s)
    /\ LET reg == RegisterConnection(Registry(session_lists, active_sessions),
                                     w, s)
       IN  /\ session_lists' = reg.lists
           /\ active_sessions' = reg.active
    /\ UNCHANGED <<executorVars, segregatorVars, busVars, sessionVars,
                   supervisorVars, publishManyVars,
                   orchestratorVars>>

\* The client's "update_subscription" message: subscribed_events is replaced
\* by the set sent, and the change is confirmed.
UpdateSubscription(w, evs) ==
    /\ connections[w].registered
    /\ connections[w].open
    /\ LET conns == [connections EXCEPT ![w].subscribed_events = evs]
       IN  /\ connections' = SendToConnection(conns, {w})
           /\ delivery' = Sends(conns, {w}, "subscription_updated", "none")
    /\ operation' = Operation("update_subscription", connections[w].session_id)
    /\ UNCHANGED <<session_lists, active_sessions, executorVars, segregatorVars, busVars, sessionVars,
                   supervisorVars, publishManyVars,
                   orchestratorVars>>

\* The peer of a socket goes away: sends to the socket raise from now on.
PeerGone(w) ==
    /\ connections[w].registered
    /\ connections[w].open
    /\ connections' = [connections EXCEPT ![w].open = FALSE]
    /\ UNCHANGED <<delivery, operation, session_lists, active_sessions,
                   executorVars, segregatorVars, busVars,
                   sessionVars, supervisorVars, publishManyVars,
                   orchestratorVars>>

\* max_idle_minutes pass without activity on the connection.
IdleTimePasses(w) ==
    /\ connections[w].registered
    /\ ~connections[w].stale
    /\ connections' = [connections EXCEPT ![w].stale = TRUE]
    /\ UNCHANGED <<delivery, operation, session_lists, active_sessions,
                   executorVars, segregatorVars, busVars,
                   sessionVars, supervisorVars, publishManyVars,
                   orchestratorVars>>

\* WebSocketEventBridge.handle(event) -> send_event_to_session: the
\* domain_event message goes to the interested connections of the session.
BridgeHandle(ev) ==
    /\ LET targets == InterestedConnections(connections, ev)
       IN  /\ connections' = SendToConnection(connections, targets)
           /\ delivery' = Sends(connections, targets, "domain_event", ev.event_type)
    /\ operation' = Operation("send_event_to_session", ev.session_id)
    /\ UNCHANGED <<session_lists, active_sessions, executorVars, segregatorVars, busVars, sessionVars,
                   supervisorVars, publishManyVars,
                   orchestratorVars>>

\* ResearchSessionWebSocketHandler.handle / ResearchTaskWebSocketHandler
\* .handle(event) -> send_to_session: the session_started or task_started
\* message goes to every connection of the session.
SpecializedHandle(ev) ==
    /\ LET targets == SessionConnections(connections, ev.session_id)
           type == IF ev.event_type = "research.session.started"
                   THEN "session_started" ELSE "task_started"
       IN  /\ connections' = SendToConnection(connections, targets)
           /\ delivery' = Sends(connections, targets, type, ev.event_type)
    /\ operation' = Operation("send_to_session", ev.session_id)
    /\ UNCHANGED <<session_lists, active_sessions, executorVars, segregatorVars, busVars, sessionVars,
                   supervisorVars, publishManyVars,
                   orchestratorVars>>

\* The endpoint's receive raises WebSocketDisconnect for a socket whose peer
\* is gone, and its finally clause calls disconnect(websocket).
Disconnect(w) ==
    /\ connections[w].registered
    /\ ~connections[w].open
    /\ connections' = [connections EXCEPT ![w] = NoConnection]
    /\ delivery' = {}
    /\ operation' = Operation("disconnect", connections[w].session_id)
    /\ LET reg == UnregisterConnection(Registry(session_lists, active_sessions),
                                       w, connections[w].session_id)
       IN  /\ session_lists' = reg.lists
           /\ active_sessions' = reg.active
    /\ UNCHANGED <<executorVars, segregatorVars, busVars, sessionVars,
                   supervisorVars, publishManyVars,
                   orchestratorVars>>

\* cleanup_stale_connections: disconnect every connection whose
\* last_activity is older than the cutoff.
CleanupStaleConnections ==
    /\ connections' = [w \in Sockets |->
                          IF connections[w].registered /\ connections[w].stale
                          THEN NoConnection ELSE connections[w]]
    /\ delivery' = {}
    /\ operation' = Operation("cleanup_stale_connections", "none")
    /\ LET reg == UnregisterEach(Registry(session_lists, active_sessions),
                                 connections,
                                 {w \in Sockets : connections[w].registered
                                                    /\ connections[w].stale})
       IN  /\ session_lists' = reg.lists
           /\ active_sessions' = reg.active
    /\ UNCHANGED <<executorVars, segregatorVars, busVars, sessionVars,
                   supervisorVars, publishManyVars,
                   orchestratorVars>>

SocketInit ==
    /\ ExecutorIdle
    /\ SegregatorIdle
    /\ BusIdle
    /\ SessionIdle
    /\ SupervisorIdle
    /\ SocketIdle
    /\ PublishManyIdle
    /\ OrchestratorIdle

SocketNext ==
    \/ \E w \in Sockets : \E s \in Sessions : Connect(w, s)
    \/ \E w \in Sockets : \E evs \in SUBSET SocketEventTypes : UpdateSubscription(w, evs)
    \/ \E w \in Sockets : PeerGone(w)
    \/ \E w \in Sockets : IdleTimePasses(w)
    \/ \E ev \in SocketEvents : BridgeHandle(ev)
    \/ \E ev \in SocketEvents : SpecializedHandle(ev)
    \/ \E w \in Sockets : Disconnect(w)
    \/ CleanupStaleConnections

SocketSpec == SocketInit /\ [][SocketNext]_vars

\* ------------------------------------------------------------ publish_many
\* The lists of events handed to publish_many; every event has a handler
\* subscribed, so that each publish awaits its handlers.
EventLists == UNION {[1..m -> EventTypes] : m \in 0..MaxEvents}

\* The loop of publish_many at the head of its next round, `sent` events
\* having been dispatched: the loop is over and publish_many returns, or
\* publish of the next event raises because the bus is not running, or it
\* hands the event to the handlers and awaits them.
PublishManyStep(events, sent) ==
    IF Len(sent) = Len(events)
    THEN /\ many' = [status |-> "returned", events |-> events]
         /\ dispatched' = sent
    ELSE IF NotRunning(running)
    THEN /\ many' = [status |-> "raised", events |-> events]
         /\ dispatched' = sent
    ELSE /\ many' = [status |-> "awaiting", events |-> events]
         /\ dispatched' = Append(sent, events[Len(sent) + 1])

\* publish_many(events) up to its first suspension.
PublishManyCall(events) ==
    /\ many.status = "idle"
    /\ PublishManyStep(events, <<>>)
    /\ UNCHANGED <<busVars, executorVars, segregatorVars, sessionVars,
                   supervisorVars, socketVars,
                   orchestratorVars>>

\* The handlers of the event under way have ended: publish returns and the
\* loop goes on.
PublishManyResume ==
    /\ many.status = "awaiting"
    /\ PublishManyStep(many.events, dispatched)
    /\ UNCHANGED <<busVars, executorVars, segregatorVars, sessionVars,
                   supervisorVars, socketVars,
                   orchestratorVars>>

PublishManyInit ==
    /\ ExecutorIdle
    /\ SegregatorIdle
    /\ BusIdle
    /\ SessionIdle
    /\ SupervisorIdle
    /\ SocketIdle
    /\ PublishManyIdle
    /\ OrchestratorIdle

PublishManyNext ==
    \/ Start
    \/ Stop
    \/ \E events \in EventLists : PublishManyCall(events)
    \/ PublishManyResume

PublishManySpec == PublishManyInit /\ [][PublishManyNext]_vars

\* ------------------------------------------------ the research orchestrator
\* What the user may type at a feedback prompt: the three numbered options,
\* and any other text.
FeedbackInputs == {"1", "2", "3", "other"}

RECURSIVE InputLists(_)
InputLists(n) ==
    IF n = 0 THEN {<<>>}
    ELSE InputLists(n - 1)
         \cup {Append(l, i) : l \in {x \in InputLists(n - 1) : Len(x) = n - 1},
                              i \in FeedbackInputs}

\* The mapping of the typed line to HumanFeedbackDecision.action.
FeedbackAction(line) ==
    CASE line = "1" -> "proceed"
      [] line = "2" -> "modify_existing"
      [] line = "3" -> "develop_new"
      [] OTHER -> "proceed"

\* The keyword arguments every emit_* method passes to the event class next
\* to the fields of the event.
EmitterEnvelope ==
    {"aggregate_id", "correlation_id", "event_type", "timestamp", "version",
     "session_id"}

\* The parameters of __init__ of the event classes the emitter constructs.
ConstructorKeywords(cls) ==
    CASE cls = "ResearchSessionStarted" ->
           {"session_id", "project_id", "query", "user_id",
            "estimated_duration_minutes", "correlation_id"}
      [] cls = "ResearchSessionCompleted" ->
           {"session_id", "project_id", "query", "total_tasks",
            "successful_tasks", "failed_tasks", "total_duration_seconds",
            "total_tool_calls", "final_report_length", "correlation_id",
            "user_id"}
      [] cls = "ResearchPlanGenerated" ->
           {"session_id", "plan_data", "correlation_id"}
      [] cls = "ResearchWorkflowStarted" ->
           {"session_id", "plan_id", "workflow_type", "estimated_duration",
            "total_expected_tasks"}
      [] cls = "ResearchWorkflowCompleted" ->
           {"session_id", "output", "total_tasks", "successful_tasks",
            "failed_tasks", "total_duration", "workflow_type"}
      [] cls = "ResearchWorkflowFailed" ->
           {"session_id", "error_message", "failed_at_task",
            "partial_results", "workflow_type"}
      [] cls = "AgentExecutionStarted" ->
           {"session_id", "agent_id", "agent_type", "input_data", "model",
            "estimated_duration"}
      [] cls = "AgentExecutionCompleted" ->
           {"session_id", "agent_id", "agent_type", "output_data",
            "execution_duration", "token_usage", "model"}
      [] cls = "AgentDecisionPoint" ->
           {"session_id", "agent_id", "agent_type", "decision_type",
            "decision_context", "decision_options", "selected_option",
            "reasoning"}

\* Calling a class with a keyword its __init__ does not take is a TypeError.
ConstructorRaises(cls) == EmitterEnvelope \ ConstructorKeywords(cls) # {}

\* An emit_* method: construct the event, then publish it on the bus.
Emit(log, cls) ==
    IF ConstructorRaises(cls)
    THEN [raised |-> TRUE, log |-> log]
    ELSE [raised |-> FALSE, log |-> Append(log, cls)]

PhaseResult(outcome, revision_no, log) ==
    [outcome |-> outcome, revision_no |-> revision_no, log |-> log]

\* The two loops of run_research_planning_phase, from the lines still to be
\* typed, revision_no and the events published: `while revision_no < 5` makes
\* a plan, presents it and reads the feedback; `while action != "proceed"`
\* counts a revision, makes the revised plan, presents it and reads the
\* feedback. After the outer loop the phase emits its completion and returns
\* the plan. A prompt with no line left to read waits for the user.
RECURSIVE PlanningLoop(_, _, _)
RECURSIVE RevisionLoop(_, _, _)
PlanningLoop(inputs, revision_no, log) ==
    IF revision_no >= 5
    THEN LET generated == Emit(log, "ResearchPlanGenerated")
             completed == Emit(generated.log, "AgentExecutionCompleted")
         IN  IF generated.raised \/ completed.raised
             THEN PhaseResult("raised", revision_no, log)
             ELSE PhaseResult("returned", revision_no, completed.log)
    ELSE LET analysed == Emit(log, "AgentDecisionPoint")
             planned == Emit(analysed.log, "AgentDecisionPoint")
         IN  IF analysed.raised \/ planned.raised
             THEN PhaseResult("raised", revision_no, log)
             ELSE IF inputs = <<>>
             THEN PhaseResult("waiting", revision_no, planned.log)
             ELSE IF FeedbackAction(Head(inputs)) = "proceed"
             THEN PlanningLoop(Tail(inputs), revision_no, planned.log)
             ELSE RevisionLoop(Tail(inputs), revision_no, planned.log)

RevisionLoop(inputs, revision_no, log) ==
    LET revising == Emit(log, "AgentDecisionPoint")
        revised == Emit(revising.log, "AgentDecisionPoint")
    IN  IF revising.raised \/ revised.raised
        THEN PhaseResult("raised", revision_no + 1, log)
        ELSE IF inputs = <<>>
        THEN PhaseResult("waiting", revision_no + 1, revised.log)
        ELSE IF FeedbackAction(Head(inputs)) = "proceed"
        THEN PlanningLoop(Tail(inputs), revision_no + 1, revised.log)
        ELSE RevisionLoop(Tail(inputs), revision_no + 1, revised.log)

\* run_research_planning_phase: emit_planning_started, then the loops; an
\* exception is recorded and raised again.
PlanningPhase(inputs, log) ==
    LET started == Emit(log, "AgentExecutionStarted")
    IN  IF started.raised
        THEN PhaseResult("raised", 0, log)
        ELSE PlanningLoop(inputs, 0, started.log)

RunResult(outcome, log, ended) ==
    [outcome |-> outcome, log |-> log, ended |-> ended]

\* The except block of orchestrate_research: emit_workflow_failed, then
\* end_session_tracking, then raise.
OrchestrateExcept(log, ended) ==
    LET failed == Emit(log, "ResearchWorkflowFailed")
    IN  IF failed.raised
        THEN RunResult("raised", log, ended)
        ELSE RunResult("raised", failed.log, ended + 1)

\* The body of orchestrate_research after a planning phase that returned a
\* plan: workflow started, the research workflow, workflow completed,
\* session completed, end_session_tracking.
OrchestrateWorkflow(log, ended) ==
    LET wstarted == Emit(log, "ResearchWorkflowStarted")
        wcompleted == Emit(wstarted.log, "ResearchWorkflowCompleted")
        scompleted == Emit(wcompleted.log, "ResearchSessionCompleted")
    IN  IF wstarted.raised THEN OrchestrateExcept(log, ended)
        ELSE IF wcompleted.raised THEN OrchestrateExcept(wstarted.log, ended)
        ELSE IF scompleted.raised
        THEN OrchestrateExcept(wcompleted.log, ended)
        ELSE RunResult("returned", scompleted.log, ended + 1)

\* orchestrate_research: emit_session_started, the planning phase, the
\* workflow; every exception goes through the except block.
Orchestrate(inputs, log, ended) ==
    LET started == Emit(log, "ResearchSessionStarted")
        plan == PlanningPhase(inputs, started.log)
    IN  IF started.raised THEN OrchestrateExcept(log, ended)
        ELSE IF plan.outcome = "raised"
        THEN OrchestrateExcept(plan.log, ended)
        ELSE IF plan.outcome = "waiting"
        THEN RunResult("waiting", plan.log, ended)
        ELSE OrchestrateWorkflow(plan.log, ended)

\* A direct call of run_research_planning_phase.
RunResearchPlanningPhase ==
    /\ planning = "init"
    /\ LET result == PlanningPhase(user_inputs, emitted)
       IN  /\ planning' = result.outcome
           /\ emitted' = result.log
    /\ UNCHANGED <<user_inputs, orchestration, tracking_ended>>
    /\ UNCHANGED <<executorVars, segregatorVars, busVars, sessionVars,
                   supervisorVars, socketVars, publishManyVars>>

\* A call of orchestrate_research.
OrchestrateResearch ==
    /\ orchestration = "init"
    /\ LET result == Orchestrate(user_inputs, emitted, tracking_ended)
       IN  /\ orchestration' = result.outcome
           /\ emitted' = result.log
           /\ tracking_ended' = result.ended
    /\ UNCHANGED <<user_inputs, planning>>
    /\ UNCHANGED <<executorVars, segregatorVars, busVars, sessionVars,
                   supervisorVars, socketVars, publishManyVars>>

OrchestratorInit ==
    /\ ExecutorIdle
    /\ SegregatorIdle
    /\ BusIdle
    /\ SessionIdle
    /\ SupervisorIdle
    /\ SocketIdle
    /\ PublishManyIdle
    /\ user_inputs \in InputLists(MaxInputs)
    /\ planning = "init"
    /\ orchestration = "init"
    /\ emitted = <<>>
    /\ tracking_ended = 0

OrchestratorNext ==
    \/ RunResearchPlanningPhase
    \/ OrchestrateResearch

OrchestratorSpec == OrchestratorInit /\ [][OrchestratorNext]_vars

\* ------------------------------------------------------------ properties
Steps == {"Produce", "Compress", "Verify"}

AllWellFormed == \A i \in DOMAIN batch : batch[i].wf

CallerFinished == cpc \in {"returned", "raised"}

\* Job j has had a Produce call return `out`.
Produced(j, out) ==
    \E p \in DOMAIN job[j].calls :
        job[j].calls[p].step = "Produce" /\ job[j].calls[p].out = out

\* C1: when the Produce step of a job of a well-formed batch raises,
\* conduct_research still returns, with one outcome per submitted job.
C1_IsolationOfRaisingJob ==
    (CallerFinished /\ AllWellFormed /\ \E j \in DOMAIN job : Produced(j, "raise"))
        => /\ cpc = "returned"
           /\ cres.kind = "outcomes"
           /\ Len(cres.outcomes) = Len(batch)

\* C2: when an element of the batch is no ResearchJob, conduct_research
\* fails with the validation error and no job of the batch ever makes a call.
C2_NoStepOnMalformedBatch ==
    ~AllWellFormed
        => /\ cpc \in {"init", "raised"}
           /\ cpc = "raised" => cres.tag = "ValueError: not a ResearchJob"
           /\ \A j \in DOMAIN job : job[j].calls = <<>>

C4_FailFastJobOutcome ==
    \A j \in DOMAIN job : batch[j].n > 1 =>
        \A p \in DOMAIN job[j].calls :
            (job[j].calls[p].step = "Produce" /\ job[j].calls[p].out = "empty")
                => /\ Len(job[j].calls) = p
                   /\ Finished(j)
                   /\ job[j].res.kind = "dict"

\* C5: in every pipeline run an empty Produce output is the last call of the
\* run (Compress and Verify are not invoked) and the loop returns the
\* failure record.
C5_ShortCircuitOnEmptyOutput ==
    \A j \in DOMAIN job : \A p \in DOMAIN job[j].calls :
        (job[j].calls[p].step = "Produce" /\ job[j].calls[p].out = "empty")
            => /\ Len(job[j].calls) = p
               /\ job[j].loopres.kind = "dict"

\* C6: a single-task job (of a well-formed batch) whose Produce output is
\* empty ends without raising.
C6_EmptyOutputHandledWithoutError ==
    \A j \in DOMAIN job :
        (AllWellFormed /\ batch[j].n = 1 /\ Finished(j) /\ Produced(j, "empty"))
            => job[j].res.kind # "exception"

\* C7: on a well-formed batch, conduct_research never raises to its caller
\* the failure of a job whose Produce step yielded no output.
C7_EmptyOutputNeverRaisedToCaller ==
    ~(/\ AllWellFormed
      /\ cpc = "raised"
      /\ firstFailed # 0
      /\ Produced(firstFailed, "empty")
      /\ cres.tag = job[firstFailed].res.tag)

\* C8: when conduct_research has returned or raised on a well-formed batch,
\* every job of the batch has finished.
C8_ReturnsAfterAllJobs ==
    (CallerFinished /\ AllWellFormed) => \A j \in DOMAIN job : Finished(j)

\* The next step of the chain of job j: the return of the call it awaits.
OwnStep(j) ==
    \/ \E out \in ProduceOutcomes : ProduceReturn(j, out)
    \/ CompressReturn(j)
    \/ \E review \in Reviews : VerifyReturn(j, review)

\* C9: the jobs are independent failure domains. A job that awaits a call
\* can always take its next step, whatever has happened to its siblings and
\* to the caller (never blocked); and the task of a job, once created, is
\* changed by that job's own steps only: no step of a sibling and no step of
\* the caller, the failure of a sibling reaching gather included, touches it
\* (never cancelled).
C9_IndependentFailureDomains ==
    /\ [](\A j \in DOMAIN job : job[j].pc # "done" /\ Created(j) /\ job[j].pc # "created"
              => ENABLED OwnStep(j))
    /\ [][\A j \in DOMAIN job :
            (Created(j) /\ job'[j] # job[j])
                => /\ cpc' = cpc
                   /\ \A i \in DOMAIN job : i # j => job'[i] = job[i]]_vars

\* A job has failed, the failure has reached the caller, and a sibling is
\* still running its own chain, past Produce and Compress.
C9_Witness ==
    /\ cpc = "raised"
    /\ \E i, j \in DOMAIN job :
          /\ i # j
          /\ Finished(i)
          /\ job[i].res.kind = "exception"
          /\ job[j].pc = "verify"

\* C10: the outcome of a single-task job is the pipeline result of its task,
\* as the loop returned it.
C10_SingleTaskIdentity ==
    \A j \in DOMAIN job :
        (batch[j].n = 1 /\ Finished(j) /\ job[j].loopres.kind \in {"tuple", "list"})
            => job[j].res = job[j].loopres

\* The tasks of a list of records come in strictly increasing task order.
InTaskOrder(records) ==
    \A p, q \in DOMAIN records : p < q => records[p].task < records[q].task

\* C11: _segregate_task_results returns for every list of results, and its
\* two lists hold, for each result, exactly one CompletedRecord built from
\* it, no Feedback entry if its verdict is Complete, and exactly one
\* Feedback entry, built from it, if its verdict is Incomplete.
C11_SegregationCounts ==
    segregated.called =>
        /\ ~segregated.out.raised
        /\ \A i \in DOMAIN research_outputs :
              LET t == research_outputs[i]
                  records == {p \in DOMAIN segregated.out.completed :
                                 segregated.out.completed[p] = CompletedTask(t)}
                  entries == {p \in DOMAIN segregated.out.feedbacks :
                                 segregated.out.feedbacks[p].task = t.task}
              IN  /\ Cardinality(records) = 1
                  /\ Cardinality(entries) = IF IsComplete(t) THEN 0 ELSE 1
                  /\ \A p \in entries : segregated.out.feedbacks[p] = FeedbackOf(t)
        /\ Len(segregated.out.completed) = Len(research_outputs)

NoStepFailed ==
    \A j \in DOMAIN job : \A p \in DOMAIN job[j].calls :
        job[j].calls[p].out \notin {"raise", "empty"}

\* C13: when every job of a well-formed batch (no empty task list) has run
\* without a failing step, conduct_research returns the outcomes of the jobs, one per job, the
\* i-th outcome being the outcome of the i-th submitted job.
C13_OutcomesInSubmissionOrder ==
    (CallerFinished /\ AllWellFormed /\ NoStepFailed
        /\ \A j \in DOMAIN job : batch[j].n >= 1 /\ Finished(j))
        => /\ cpc = "returned"
           /\ cres.kind = "outcomes" =>
                 /\ Len(cres.outcomes) = Len(batch)
                 /\ \A i \in DOMAIN batch : cres.outcomes[i] = job[i].res

\* C14: a ResearchJob with an empty task list is rejected: its task is never
\* run to an outcome and conduct_research raises the validation error.
C14_EmptyJobRejected ==
    \A j \in DOMAIN batch :
        (batch[j].wf /\ batch[j].n = 0)
            => /\ ~Finished(j)
               /\ CallerFinished =>
                     (cpc = "raised" /\ cres.tag = "ValueError: not a ResearchJob")

\* C15: in research_workflow the three steps of the pipeline of a task happen
\* at most once each and in strict order: Compress is called only right
\* after Produce of that task has returned non-empty findings, and Verify
\* only right after Compress of that task has returned.
C15_StepsInStrictOrder ==
    variant = "workflow" =>
        \A j \in DOMAIN job :
            LET c == job[j].calls
            IN  \A q \in DOMAIN c :
                    /\ \A p \in DOMAIN c :
                          (p # q /\ c[p].task = c[q].task) => c[p].step # c[q].step
                    /\ c[q].step = "Compress" =>
                          /\ q > 1
                          /\ c[q - 1].task = c[q].task
                          /\ c[q - 1].step = "Produce"
                          /\ c[q - 1].returned
                          /\ c[q - 1].out = "text"
                    /\ c[q].step = "Verify" =>
                          /\ q > 1
                          /\ c[q - 1].task = c[q].task
                          /\ c[q - 1].step = "Compress"
                          /\ c[q - 1].returned

\* A pipeline of research_workflow has run Produce, Compress and Verify to
\* their return, next to a sibling whose Produce returned empty findings.
C15_Witness ==
    /\ variant = "workflow"
    /\ \E i, j \in DOMAIN job :
          /\ Len(job[j].calls) = 3
          /\ \A p \in 1..3 : job[j].calls[p].returned
          /\ Produced(i, "empty")

\* A task event of the pipeline run of task k of job j.
TaskEvent(type, j, k) == [type |-> type, job |-> j, task |-> k]

\* The pipeline run of task k of job j has ended: Verify has returned, or
\* Produce has returned empty findings and the run was cut short.
RunEnded(j, k) ==
    \E p \in DOMAIN job[j].calls :
        /\ job[j].calls[p].task = k
        /\ job[j].calls[p].returned
        /\ \/ job[j].calls[p].step = "Verify"
           \/ job[j].calls[p].step = "Produce" /\ job[j].calls[p].out = "empty"
                /\ Len(job[j].calls) = p

\* C16: every pipeline run has published a TaskStarted event by the time its
\* Produce step is called, and exactly one of TaskCompleted and TaskFailed
\* once it has ended, each carrying the job and task it belongs to.
C16_PipelineEvents ==
    \A j \in DOMAIN job : \A p \in DOMAIN job[j].calls :
        LET k == job[j].calls[p].task
            terminal == {e \in DOMAIN job[j].events :
                            \/ job[j].events[e] = TaskEvent("TaskCompleted", j, k)
                            \/ job[j].events[e] = TaskEvent("TaskFailed", j, k)}
        IN  /\ \E e \in DOMAIN job[j].events :
                  job[j].events[e] = TaskEvent("TaskStarted", j, k)
            /\ Cardinality(terminal) = IF RunEnded(j, k) THEN 1 ELSE 0

\* C17: publish raises the not-running error exactly when the last of the
\* start and stop calls so far was not start (none yet, or stop), whatever
\* calls came before, and then calls no handler.
C17_PublishNeedsRunningBus ==
    [][\A e \in EventTypes :
          PublishCall(e) =>
              /\ (dispatch'.status = "raised") <=> (lifecycle # "start")
              /\ lifecycle # "start" =>
                    (invoked' = NoneInvoked /\ dispatch'.resolved = <<>>)]_vars

\* publish has raised on a bus stopped after a start, with a handler
\* subscribed for the event.
C17_Witness ==
    /\ dispatch.status = "raised"
    /\ lifecycle = "stop"
    /\ handlers[dispatch.event] # <<>>
    /\ invoked = NoneInvoked

\* C18: publish on a running bus calls handle() once for every subscription
\* under the very type of the event or under DomainEvent, and for no other:
\* with N such subscriptions there are exactly N invocations.
C18_EveryApplicableHandlerInvoked ==
    [][\A e \in EventTypes :
          (PublishCall(e) /\ running) =>
              /\ \A h \in HandlerIds :
                    invoked'[h] = IF HandlerType(h) \in {e, WildcardType}
                                  THEN Occurrences(handlers[HandlerType(h)], h)
                                  ELSE 0
              /\ Len(dispatch'.resolved) = Len(handlers[e]) + Len(handlers[WildcardType])]_vars

\* An event has been dispatched to a handler of its type and to a handler of
\* DomainEvent, and not to a subscribed handler of another type.
C18_Witness ==
    /\ dispatch.status \in {"dispatching", "returned"}
    /\ Len(dispatch.resolved) = 2
    /\ \E h, w, o \in HandlerIds :
          /\ HandlerType(h) = dispatch.event /\ invoked[h] = 1
          /\ HandlerType(w) = WildcardType /\ invoked[w] = 1
          /\ HandlerType(o) \notin {dispatch.event, WildcardType}
          /\ handlers[HandlerType(o)] # <<>>
          /\ invoked[o] = 0

\* C19: the failure of a handler stays with that handler. While publish
\* awaits, every handler still running can go on to its end and, once none
\* is running, publish can return; no step turns the publish under way into
\* a raised one, changes its handlers or touches the outcome of a handler
\* that has ended, and publish returns only when every handler has ended.
C19_HandlerFailureIsolated ==
    /\ [](dispatch.status = "dispatching" =>
             /\ \A i \in DOMAIN dispatch.outcome :
                   dispatch.outcome[i] = "running" => ENABLED HandlerReturn(i, "ok")
             /\ (\A i \in DOMAIN dispatch.outcome : dispatch.outcome[i] # "running")
                   => ENABLED PublishReturn)
    /\ [][dispatch.status = "dispatching" =>
             /\ dispatch'.status \in {"dispatching", "returned"}
             /\ dispatch'.resolved = dispatch.resolved
             /\ \A i \in DOMAIN dispatch.outcome :
                   dispatch.outcome[i] # "running"
                       => dispatch'.outcome[i] = dispatch.outcome[i]
             /\ dispatch'.status = "returned" =>
                   \A i \in DOMAIN dispatch.outcome :
                       dispatch.outcome[i] \in {"ok", "failed"}]_vars

\* publish has returned after one of its handlers failed and another one
\* ran to its end.
C19_Witness ==
    /\ dispatch.status = "returned"
    /\ \E i, j \in DOMAIN dispatch.outcome :
          dispatch.outcome[i] = "failed" /\ dispatch.outcome[j] = "ok"

\* C20: for the event of a publish, handle() of each handler is called at
\* most once, whatever subscribe and unsubscribe calls came before.
C20_AtMostOncePerHandler == \A h \in HandlerIds : invoked[h] <= 1

\* C21: the handlers of a publish begin in descending priority order: no
\* handler comes before a handler of strictly higher priority in the order
\* of starting, whatever the order of subscription was.
C21_StartedByDescendingPriority ==
    dispatch.status \in {"dispatching", "returned"} =>
        \A i, j \in DOMAIN dispatch.resolved :
            i < j => HandlerPriority(dispatch.resolved[i])
                         >= HandlerPriority(dispatch.resolved[j])

\* A handler of higher priority has begun before a handler of lower
\* priority that was subscribed, and stands in all_handlers, before it.
C21_Witness ==
    /\ dispatch.status = "dispatching"
    /\ \E i, j \in DOMAIN dispatch.resolved :
          /\ i < j
          /\ HandlerPriority(dispatch.resolved[i]) > HandlerPriority(dispatch.resolved[j])
    /\ dispatch.resolved # ApplicableHandlers(handlers, dispatch.event)
    /\ Len(dispatch.resolved) = Len(ApplicableHandlers(handlers, dispatch.event))

\* get_session_audit_log(session_id): the entries of a session, in log order.
SessionLog(log, s) == SelectSeq(log, LAMBDA e : e.session = s)

IsPrefix(a, b) == Len(a) <= Len(b) /\ SubSeq(b, 1, Len(a)) = a

\* C22: with one publisher that awaits each publish before the next, the
\* audit log of every session is the sequence of the events published for
\* that session, in publication order (short of the event being handled at
\* most), and when an event is published every handler has ended the event
\* before it.
C22_HandledInPublicationOrder ==
    /\ [](\A s \in Sessions :
             /\ IsPrefix(SessionLog(audit_log, s), SessionLog(published, s))
             /\ Len(published) - Len(audit_log) <= 1
             /\ handling = NotHandling => audit_log = published)
    /\ [][published' # published =>
              (handling.pending = <<>> /\ audit_log = published)]_vars

\* Three events of two sessions have been published and handled.
C22_Witness ==
    /\ handling = NotHandling
    /\ Len(published) = MaxPublished
    /\ \E i, j \in DOMAIN published : published[i].session # published[j].session
    /\ \E s \in Sessions : Len(SessionLog(audit_log, s)) >= 2

\* The index in `published` of the latest ResearchSessionStarted of
\* session s, 0 if there is none.
LastSessionStart(s) ==
    LET starts == {i \in DOMAIN published :
                      published[i].type = "ResearchSessionStarted"
                          /\ published[i].session = s}
    IN  IF starts = {} THEN 0 ELSE CHOOSE i \in starts : \A k \in starts : k <= i

\* The task events of session s published since its ResearchSessionStarted.
TaskEventsOf(s) ==
    SelectSeq(SubSeq(published, LastSessionStart(s) + 1, Len(published)),
              LAMBDA e : e.session = s)

CountOf(evs, type) == Len(SelectSeq(evs, LAMBDA e : e.type = type))

StatusAfter(type) ==
    IF type = "ResearchTaskStarted" THEN "running"
    ELSE IF type = "ResearchTaskCompleted" THEN "completed" ELSE "failed"

\* C27: once the publishes have returned, the tracker holds for every
\* session whose ResearchSessionStarted was handled: total_tasks,
\* completed_tasks and failed_tasks equal to the numbers of
\* ResearchTaskStarted, ResearchTaskCompleted and ResearchTaskFailed events
\* of the session published since, and for each task started since the
\* status of its latest event.
C27_TrackerCounts ==
    handling = NotHandling =>
        \A s \in Sessions :
            LET p == session_progress[s]
                evs == TaskEventsOf(s)
            IN  /\ p.tracked <=> LastSessionStart(s) > 0
                /\ p.tracked =>
                      /\ p.total_tasks = CountOf(evs, "ResearchTaskStarted")
                      /\ p.completed_tasks = CountOf(evs, "ResearchTaskCompleted")
                      /\ p.failed_tasks = CountOf(evs, "ResearchTaskFailed")
                      /\ \A t \in TaskIds :
                            LET mine == SelectSeq(evs, LAMBDA e : e.task = t)
                            IN  IF CountOf(mine, "ResearchTaskStarted") > 0
                                THEN p.tasks[t] = StatusAfter(mine[Len(mine)].type)
                                ELSE p.tasks[t] = "absent"

\* A session has been started, one of its tasks started and then completed
\* or failed, and the tracker has handled the three events.
C27_Witness ==
    /\ handling = NotHandling
    /\ \E s \in Sessions : \E t \in TaskIds :
          /\ session_progress[s].tracked
          /\ session_progress[s].total_tasks = 1
          /\ session_progress[s].completed_tasks + session_progress[s].failed_tasks = 1
          /\ session_progress[s].tasks[t] \in {"completed", "failed"}

\* C23: the subscription registry is changed only while the bus is not
\* running: no subscribe or unsubscribe takes effect between start and stop.
C23_RegistryChangedOnlyWhileStopped ==
    [][handlers' # handlers => ~running]_vars

\* C24: the supervisor stops issuing batches once research_complete has been
\* called: no conduct_research call is made after the completion signal.
C24_NoBatchAfterCompletionSignal ==
    [][completion_signal => rounds' = rounds]_vars

\* C25: no conduct_research call of the supervisor holds more research jobs
\* than max_concurrent_research_units.
C25_JobsWithinCeiling == research_jobs <= max_concurrent_research_units

\* The result tuple t of job j holds what the job's own Produce and Verify
\* calls for that task returned.
OwnResult(j, t) ==
    \E p, q \in DOMAIN job[j].calls :
        /\ job[j].calls[p].task = t.task
        /\ job[j].calls[p].step = "Produce"
        /\ job[j].calls[p].returned
        /\ job[j].calls[p].out = t.raw
        /\ job[j].calls[q].task = t.task
        /\ job[j].calls[q].step = "Verify"
        /\ job[j].calls[q].returned
        /\ job[j].calls[q].out = t.verdict

C28_OnlySubscribedEventsReceived ==
    \A d \in delivery :
        (d.received /\ d.event_type # "none")
            => d.event_type \in connections[d.socket].subscribed_events

\* The manager operations that reach the connections of session s: a send
\* to the session, and the cleanup.
ReachesSession(op, s) ==
    \/ op.name = "cleanup_stale_connections"
    \/ op.name \in {"send_event_to_session", "send_to_session"} /\ op.session_id = s

\* C29: a connection a send to which has failed is removed by the next
\* operation of the manager that reaches its session.
C29_FailedConnectionCleanedUp ==
    [][\A w \in Sockets :
          (/\ connections[w].registered
           /\ connections[w].send_failed
           /\ operation' # operation
           /\ ReachesSession(operation', connections[w].session_id))
              => ~connections'[w].registered]_vars

\* C30: publish_many is atomic: when it has returned or raised, either all
\* of its events have been dispatched to the handlers or none has.
C30_PublishManyAllOrNone ==
    many.status \in {"returned", "raised"}
        => Len(dispatched) \in {0, Len(many.events)}

Proceeds(inputs) == \E i \in DOMAIN inputs : FeedbackAction(inputs[i]) = "proceed"

\* C31: a planning phase whose user types a 'proceed' among the feedback
\* lines ends by returning the plan.
C31_ProceedReturnsPlan ==
    (planning # "init" /\ Proceeds(user_inputs)) => planning = "returned"

TerminalEvents ==
    SelectSeq(emitted, LAMBDA cls :
        cls \in {"ResearchSessionCompleted", "ResearchWorkflowFailed"})

\* C33: a run of orchestrate_research that has ended has published exactly
\* one terminal outcome event and has called end_session_tracking exactly
\* once.
C33_OneTerminalOutcome ==
    orchestration \in {"returned", "raised"}
        => Len(TerminalEvents) = 1 /\ tracking_ended = 1

\* C34: a finished job of N > 1 tasks none of whose calls raised and whose
\* Produce steps all returned output has run N pipelines, and its loop has
\* returned the list of N result tuples in task order.
C34_SequentialLoopReturnsAllTuples ==
    \A j \in DOMAIN job :
        (/\ batch[j].n > 1
         /\ Finished(j)
         /\ \A p \in DOMAIN job[j].calls :
                /\ job[j].calls[p].out # "raise"
                /\ job[j].calls[p].step = "Produce" => job[j].calls[p].out = "text")
            => /\ Len(job[j].calls) = 3 * batch[j].n
               /\ job[j].loopres.kind = "list"
               /\ Len(job[j].loopres.items) = batch[j].n
               /\ \A k \in DOMAIN job[j].loopres.items :
                      job[j].loopres.items[k].task = k

\* C35: a subscribe or unsubscribe call made while a publish is under way
\* leaves the handlers of that publish as they were when it started: none
\* is added, none is removed, and no handle() call is made or taken back.
C35_HandlersFixedAtPublish ==
    [][\A h \in HandlerIds :
          (dispatch.status = "dispatching" /\ (Subscribe(h) \/ Unsubscribe(h)))
              => /\ dispatch'.resolved = dispatch.resolved
                 /\ DOMAIN dispatch'.outcome = DOMAIN dispatch.outcome
                 /\ invoked' = invoked]_vars

\* A publish is under way with handlers other than those the registry now
\* holds for its event: the registry was changed after the publish began.
C35_Witness ==
    /\ dispatch.status = "dispatching"
    /\ dispatch.resolved
           # SortedHandlers(ApplicableHandlers(handlers, dispatch.event))
    /\ \E h \in HandlerIds :
          Occurrences(dispatch.resolved, h)
              < Occurrences(ApplicableHandlers(handlers, dispatch.event), h)
    /\ \E h \in HandlerIds :
          Occurrences(dispatch.resolved, h)
              > Occurrences(ApplicableHandlers(handlers, dispatch.event), h)

\* C36: when unsubscribe(h) returns, the registry holds no entry of h, so
\* that no later publish invokes h, whatever subscribe calls came before;
\* and unsubscribe of a handler that is not subscribed changes nothing.
C36_UnsubscribedHandlerNotInvoked ==
    [][\A h \in HandlerIds :
          Unsubscribe(h) =>
              /\ Occurrences(handlers'[HandlerType(h)], h) = 0
              /\ Occurrences(handlers[HandlerType(h)], h) = 0
                     => handlers' = handlers]_vars

TasksWithStatus(p, status) == {t \in TaskIds : p.tasks[t] = status}

\* C38: for every tracked session total_tasks is the number of entries of
\* the tasks map, completed_tasks the number of entries with status
\* completed and failed_tasks the number with status failed, so that
\* completed_tasks + failed_tasks <= total_tasks.
C38_CountersMatchTasksMap ==
    \A s \in Sessions :
        LET p == session_progress[s]
        IN  p.tracked =>
              /\ p.total_tasks = Cardinality(TaskIds \ TasksWithStatus(p, "absent"))
              /\ p.completed_tasks = Cardinality(TasksWithStatus(p, "completed"))
              /\ p.failed_tasks = Cardinality(TasksWithStatus(p, "failed"))
              /\ p.completed_tasks + p.failed_tasks <= p.total_tasks

C39_DeliveredWithinSession ==
    [][\A ev \in SocketEvents :
          (BridgeHandle(ev) \/ SpecializedHandle(ev)) =>
              \A w \in Sockets :
                  (connections[w].registered
                   /\ connections[w].session_id # ev.session_id)
                      => /\ connections'[w] = connections[w]
                         /\ \A d \in delivery' : d.socket # w]_vars

\* Connections of two sessions are registered, both subscribed to the type
\* of the event just handled, and the messages went to one of them.
C39_Witness ==
    /\ operation.name \in {"send_event_to_session", "send_to_session"}
    /\ delivery # {}
    /\ \E w \in Sockets :
          /\ connections[w].registered
          /\ connections[w].session_id # operation.session_id
          /\ \A d \in delivery :
                /\ d.socket # w
                /\ d.event_type \in connections[w].subscribed_events

====
